---- MODULE Spec2Model ----
\* Model of the request cache and the pagination/retry layer of
\* src/repo-oracle/server.py: class LRU, _cache_key, _get and _get_all.
EXTENDS Integers, Sequences, FiniteSets, TLC

VARIABLES
    lru,        \* an LRU object: [maxsize, d]; d is the OrderedDict, oldest entry first
    lruEv,      \* the last LRU call: its arguments, the store before it, what it returned
    lruOps,     \* the last (up to four) LRU calls, as <<op, key>>
    touched,    \* keys in the order of their most recent touch, oldest first
    CACHE,      \* the module-level CACHE = LRU(128) used by _get
    last,       \* the last _get call: its arguments, what the transport did, what it returned
    pc,         \* where _get_all stands: "idle", "first" (line 89), "retry" (line 94)
    args,       \* the arguments of the running (or last) _get_all
    page,       \* _get_all's page
    all_items,  \* _get_all's all_items
    res,        \* _get_all's res: what its last _get returned
    ret,        \* what the last _get_all returned (or that it raised)
    ev,         \* the last step of _get_all: the attempt, the page, the transport's answer
    run,        \* counts of the running (or last) _get_all: transport calls, sleeps
    keyed,      \* the last two _cache_key calls: one path, two mappings, the two keys
    SESSION,    \* the module-level SESSION: [owner, repo]
    used,       \* the last _use_repo call: its arguments, SESSION before it, its outcome
    connected   \* the arguments of the most recent connect_repo call, if there was one

vars == <<lru, lruEv, lruOps, touched, CACHE, last, pc, args, page, all_items,
          res, ret, ev, run, keyed, SESSION, used, connected>>

lruVars == <<lru, lruEv, lruOps, touched>>
getVars == <<CACHE, last>>
allVars == <<pc, args, page, all_items, res, ret, ev, run>>
keyVars == <<keyed>>
sessionVars == <<SESSION, used, connected>>
otherVars == <<keyVars, sessionVars>>

-----------------------------------------------------------------------------
\* Bounds of the model.

\* The largest maxsize an LRU under test is constructed with (the smallest is -1).
MaxCap == 3

\* The largest max_pages _get_all is called with.
MaxPages == 3

\* The largest number of parameters of a mapping _cache_key is called with.
MaxParams == 2

\* CACHE = LRU(128)
CacheMaxsize == 128

\* r.text[:200]
TruncLen == 200

-----------------------------------------------------------------------------
\* JSON payloads, as r.json() returns them. Python's None is the JSON null.

Payload(t, has, items) == [t |-> t, has |-> has, items |-> items]

None == Payload("null", FALSE, <<>>)

\* A list of items.
ListOf(items) == Payload("list", FALSE, items)

\* An object with an "items" member.
ObjOf(items) == Payload("obj", TRUE, items)

\* An object without an "items" member.
ObjBare == Payload("obj", FALSE, <<>>)

-----------------------------------------------------------------------------
\* OrderedDict: a sequence of [k, v], oldest first.

InDict(d, k) == \E i \in 1..Len(d) : d[i].k = k

IndexOf(d, k) == CHOOSE i \in 1..Len(d) : d[i].k = k

DictGet(d, k) == d[IndexOf(d, k)].v

DictKeys(d) == {d[i].k : i \in 1..Len(d)}

RemoveAt(s, i) == SubSeq(s, 1, i - 1) \o SubSeq(s, i + 1, Len(s))

\* d[k] = v: a present key keeps its place, a new key goes last.
DictSetItem(d, k, v) ==
    IF InDict(d, k)
    THEN [d EXCEPT ![IndexOf(d, k)] = [k |-> k, v |-> v]]
    ELSE Append(d, [k |-> k, v |-> v])

\* d.move_to_end(k), k present.
MoveToEnd(d, k) ==
    LET i == IndexOf(d, k)
    IN  Append(RemoveAt(d, i), d[i])

\* d.popitem(last=False): drops the first (oldest) entry.
PopFirst(d) == Tail(d)

-----------------------------------------------------------------------------
\* class LRU

LRUInit(maxsize) == [maxsize |-> maxsize, d |-> <<>>]

\* LRU.get without the move_to_end.
LRUGetNoRefresh(c, k) ==
    IF InDict(c.d, k)
    THEN [c |-> c, ret |-> DictGet(c.d, k)]
    ELSE [c |-> c, ret |-> None]

\* LRU.get: the store afterwards and the value returned.
LRUGet(c, k) ==
    IF InDict(c.d, k)
    THEN [c |-> [c EXCEPT !.d = MoveToEnd(c.d, k)], ret |-> DictGet(c.d, k)]
    ELSE [c |-> c, ret |-> None]

\* LRU.set popping the newest entry: popitem() for popitem(last=False).
LRUSetPopsLast(c, k, v) ==
    LET d1 == DictSetItem(c.d, k, v)
        d2 == MoveToEnd(d1, k)
    IN  [c EXCEPT !.d = IF Len(d2) > c.maxsize THEN SubSeq(d2, 1, Len(d2) - 1) ELSE d2]

\* LRU.set evicting one entry too late.
LRUSetLate(c, k, v) ==
    LET d1 == DictSetItem(c.d, k, v)
        d2 == MoveToEnd(d1, k)
    IN  [c EXCEPT !.d = IF Len(d2) > c.maxsize + 1 THEN PopFirst(d2) ELSE d2]

\* LRU.set: the store afterwards.
LRUSet(c, k, v) ==
    LET d1 == DictSetItem(c.d, k, v)
        d2 == MoveToEnd(d1, k)
    IN  [c EXCEPT !.d = IF Len(d2) > c.maxsize THEN PopFirst(d2) ELSE d2]

-----------------------------------------------------------------------------
\* Query parameters: a dict, as the sequence of its items [name, value] in
\* insertion order, a value being an int [ty |-> "int", n |-> 1] or a str
\* [ty |-> "str", s |-> "x"].

IntVal(n) == [ty |-> "int", n |-> n, s |-> ""]

StrVal(x) == [ty |-> "str", n |-> 0, s |-> x]

NoParams == <<>>

\* The names of a dict.
ParamNames(params) == {params[i].name : i \in 1..Len(params)}

\* params[name], name present.
ParamGet(params, name) ==
    params[CHOOSE i \in 1..Len(params) : params[i].name = name].value

\* {**params, name: v}: a present name keeps its place, a new one goes last.
Merge(params, name, v) ==
    IF name \in ParamNames(params)
    THEN [i \in 1..Len(params) |->
             IF params[i].name = name THEN [name |-> name, value |-> v] ELSE params[i]]
    ELSE Append(params, [name |-> name, value |-> v])

\* The parameter names of the model, in lexicographic order.
NameOrder == <<"page", "per_page", "q">>

NameRank(n) == CHOOSE i \in 1..Len(NameOrder) : NameOrder[i] = n

\* sorted(names)
RECURSIVE SortedNames(_)
SortedNames(S) ==
    IF S = {} THEN <<>>
    ELSE LET m == CHOOSE x \in S : \A y \in S : NameRank(x) <= NameRank(y)
         IN  <<m>> \o SortedNames(S \ {m})

\* json.dumps of one value, as the pieces of the text.
DumpsValue(v) ==
    IF v.ty = "int" THEN <<ToString(v.n)>> ELSE <<"\"", v.s, "\"">>

RECURSIVE DumpsItems(_, _)
DumpsItems(params, names) ==
    IF names = <<>> THEN <<>>
    ELSE <<"\"", Head(names), "\"", ": ">> \o DumpsValue(ParamGet(params, Head(names)))
         \o (IF Len(names) > 1 THEN <<", ">> ELSE <<>>)
         \o DumpsItems(params, Tail(names))

\* json.dumps(params): the items in insertion order.
DumpsUnsorted(params) ==
    <<"{">> \o DumpsItems(params, [i \in 1..Len(params) |-> params[i].name]) \o <<"}">>

\* json.dumps(params, sort_keys=True), as the pieces of the text.
DumpsSorted(params) ==
    <<"{">> \o DumpsItems(params, SortedNames(ParamNames(params))) \o <<"}">>

\* _cache_key: f"{path}?{json.dumps(params, sort_keys=True)}"
_cache_key(path, params) == <<path, "?">> \o DumpsSorted(params)

-----------------------------------------------------------------------------
\* The transport: requests.get answers with a status, a body, a Link header.
\* A body text is [len, rlAt]: its length and the place (0: nowhere) where
\* "rate limit" (in any case) starts in it.

Text(len, rlAt) == [len |-> len, rlAt |-> rlAt]

NoText == Text(0, 0)

OkResp(data, next) ==
    [status |-> 200, data |-> data, next |-> next, text |-> NoText]

FailResp(status, text) ==
    [status |-> status, data |-> None, next |-> FALSE, text |-> text]

\* r.ok
RespOk(r) == r.status < 400

Min(a, b) == IF a < b THEN a ELSE b

\* f"{r.status_code}: {r.text[:200]}": the status, the length of the text
\* kept, and whether "rate limit" survives the cut whole.
ErrorOf(r) ==
    [status |-> r.status,
     len |-> Min(r.text.len, TruncLen),
     rl |-> r.text.rlAt > 0 /\ r.text.rlAt + 9 <= TruncLen]

NoError == [status |-> 0, len |-> 0, rl |-> FALSE]

\* The dict _get returns: the set of its keys, and their values.
ResDict(keys, data, from_cache, link, error) ==
    [keys |-> keys, data |-> data, from_cache |-> from_cache, link |-> link,
     error |-> error]

\* _get with failures cached too.
_getCachingErrors(cache, path, params, use_cache, resp) ==
    LET key == _cache_key(path, params)
        g == IF use_cache THEN LRUGet(cache, key) ELSE [c |-> cache, ret |-> None]
    IN  IF use_cache /\ g.ret # None
        THEN [cache |-> g.c, net |-> FALSE, atCall |-> g.c,
              res |-> ResDict({"data", "from_cache"}, g.ret, TRUE, FALSE, NoError)]
        ELSE IF ~RespOk(resp)
        THEN [cache |-> IF use_cache
                         THEN LRUSet(g.c, key, Payload("error", FALSE, <<>>))
                         ELSE g.c,
              net |-> TRUE, atCall |-> g.c,
              res |-> ResDict({"error", "path", "ratelimit-remaining", "ratelimit-reset"},
                              None, FALSE, FALSE, ErrorOf(resp))]
        ELSE [cache |-> IF use_cache THEN LRUSet(g.c, key, resp.data) ELSE g.c,
              net |-> TRUE, atCall |-> g.c,
              res |-> ResDict({"data", "from_cache", "link", "ratelimit"},
                              resp.data, FALSE, resp.next, NoError)]

\* _get that never stores what it fetched.
_getNoStore(cache, path, params, use_cache, resp) ==
    LET key == _cache_key(path, params)
        g == IF use_cache THEN LRUGet(cache, key) ELSE [c |-> cache, ret |-> None]
    IN  IF use_cache /\ g.ret # None
        THEN [cache |-> g.c, net |-> FALSE, atCall |-> g.c,
              res |-> ResDict({"data", "from_cache"}, g.ret, TRUE, FALSE, NoError)]
        ELSE IF ~RespOk(resp)
        THEN [cache |-> g.c, net |-> TRUE, atCall |-> g.c,
              res |-> ResDict({"error", "path", "ratelimit-remaining", "ratelimit-reset"},
                              None, FALSE, FALSE, ErrorOf(resp))]
        ELSE [cache |-> g.c, net |-> TRUE, atCall |-> g.c,
              res |-> ResDict({"data", "from_cache", "link", "ratelimit"},
                              resp.data, FALSE, resp.next, NoError)]

\* _get(path, params, use_cache) when the transport, if called, answers resp:
\* the cache afterwards, the dict returned, whether the transport was called,
\* and the cache as it was when the transport was called.
_get(cache, path, params, use_cache, resp) ==
    LET key == _cache_key(path, params)
        g == IF use_cache THEN LRUGet(cache, key) ELSE [c |-> cache, ret |-> None]
    IN  IF use_cache /\ g.ret # None
        THEN [cache |-> g.c, net |-> FALSE, atCall |-> g.c,
              res |-> ResDict({"data", "from_cache"}, g.ret, TRUE, FALSE, NoError)]
        ELSE IF ~RespOk(resp)
        THEN [cache |-> g.c, net |-> TRUE, atCall |-> g.c,
              res |-> ResDict({"error", "path", "ratelimit-remaining", "ratelimit-reset"},
                              None, FALSE, FALSE, ErrorOf(resp))]
        ELSE [cache |-> IF use_cache THEN LRUSet(g.c, key, resp.data) ELSE g.c,
              net |-> TRUE, atCall |-> g.c,
              res |-> ResDict({"data", "from_cache", "link", "ratelimit"},
                              resp.data, FALSE, resp.next, NoError)]

-----------------------------------------------------------------------------
\* An LRU object on its own: any sequence of set and get calls.

LruKeys == {"a", "b", "c"}

LruValues == {None, ListOf(<<1>>)}

\* The maxsize values an LRU is constructed with.
LruSizes == (0 - 1)..MaxCap

NoLruCall == [op |-> "none", k |-> "a", v |-> None, pre |-> <<>>, ret |-> None]

\* The last four calls.
KeepLast(s) == IF Len(s) > 4 THEN Tail(s) ELSE s

\* k was touched now: it becomes the most recently touched key.
Touch(order, k) ==
    Append(SelectSeq(order, LAMBDA x : x # k), k)

\* The place of k in the order of touches (larger is more recent).
TouchPos(order, k) == CHOOSE i \in 1..Len(order) : order[i] = k

\* The keys the last call removed from the store.
Evicted ==
    IF lruEv.op = "set"
    THEN (DictKeys(lruEv.pre) \cup {lruEv.k}) \ DictKeys(lru.d)
    ELSE DictKeys(lruEv.pre) \ DictKeys(lru.d)

LruSetCall(k, v) ==
    /\ lru' = LRUSet(lru, k, v)
    /\ lruEv' = [op |-> "set", k |-> k, v |-> v, pre |-> lru.d, ret |-> None]
    /\ lruOps' = KeepLast(Append(lruOps, <<"set", k>>))
    /\ touched' = Touch(touched, k)
    /\ UNCHANGED <<getVars, allVars, otherVars>>

LruGetCall(k) ==
    LET r == LRUGet(lru, k)
    IN  /\ lru' = r.c
        /\ lruEv' = [op |-> "get", k |-> k, v |-> None, pre |-> lru.d, ret |-> r.ret]
        /\ lruOps' = KeepLast(Append(lruOps, <<"get", k>>))
        /\ touched' = IF k \in DictKeys(lru.d) THEN Touch(touched, k) ELSE touched
        /\ UNCHANGED <<getVars, allVars, otherVars>>

-----------------------------------------------------------------------------
\* What the transport can answer to a request for page p (p = 0: no page).

Payloads(p) ==
    {None, ListOf(<<>>), ListOf(<<p>>), ObjOf(<<>>), ObjOf(<<p>>), ObjBare}

Failures ==
    {FailResp(403, Text(30, 5)),      \* 403, "rate limit" in the message
     FailResp(403, Text(9, 0)),       \* 403, another message
     FailResp(403, Text(300, 195)),   \* 403, "rate limit" cut off by [:200]
     FailResp(500, Text(30, 5))}      \* another status, "rate limit" in the message

\* A page that is not empty and announces a next page.
FullPage(r) ==
    /\ RespOk(r) /\ r.next
    /\ r.data.t \in {"list", "obj"} /\ r.data.items # <<>>
    /\ r.data.t = "obj" => r.data.has

Resps(p) == {OkResp(d, n) : d \in Payloads(p), n \in BOOLEAN} \cup Failures

\* No _get call yet.
NoGet ==
    [op |-> "none", path |-> "", params |-> NoParams, use_cache |-> FALSE,
     net |-> FALSE, res |-> ResDict({}, None, FALSE, FALSE, NoError),
     pre |-> <<>>, atCall |-> <<>>]

\* No attempt yet. full: the transport has so far answered every call with a
\* page that is not empty and announces a next page.
\* got: the payloads of the pages that succeeded, in page order. total: the
\* transport calls of the run. prev, prevMax: what the run before returned,
\* and its max_pages.
NoRun ==
    [calls |-> 0, sleeps |-> 0, maxReq |-> 0, full |-> TRUE, got |-> <<>>, total |-> 0,
     prev |-> [kind |-> "none", keys |-> {}, items |-> <<>>, error |-> NoError],
     prevMax |-> 0]

-----------------------------------------------------------------------------
\* _get called on its own (a single-resource fetch).

GetRequests ==
    {<<"/a", NoParams>>, <<"/a", Merge(NoParams, "q", StrVal("x"))>>, <<"/b", NoParams>>}

GetResps ==
    {OkResp(d, n) : d \in {None, ListOf(<<1>>), ObjBare}, n \in BOOLEAN} \cup Failures

GetCall(path, params, use_cache, resp) ==
    LET g == _get(CACHE, path, params, use_cache, resp)
    IN  /\ CACHE' = g.cache
        /\ last' = [op |-> "get", path |-> path, params |-> params,
                    use_cache |-> use_cache, net |-> g.net, res |-> g.res,
                    pre |-> CACHE.d, atCall |-> g.atCall.d]
        /\ UNCHANGED <<lruVars, allVars, otherVars>>

-----------------------------------------------------------------------------
\* _get_all

\* What a call returned: the keys of the dict and their values.
Returned(keys, items, error) ==
    [kind |-> "returned", keys |-> keys, items |-> items, error |-> error]

\* The call raised (data.get on a payload that is no dict).
Raised == [kind |-> "raised", keys |-> {}, items |-> <<>>, error |-> NoError]

NoReturn == [kind |-> "none", keys |-> {}, items |-> <<>>, error |-> NoError]

\* A failure taken for the end of the results: return {"data": all_items}.
ReturnResAsData(r, acc) == Returned({"data"}, acc, NoError)

\* return res, with the items collected so far returned too.
ReturnResWithItems(r, acc) == Returned(r.keys \cup {"data"}, acc, r.error)

\* return res (lines 96, 98): the failure dict of _get, as it is.
ReturnRes(r, acc) == Returned(r.keys, <<>>, r.error)

\* return {"data": all_items}
ReturnData(acc) == Returned({"data"}, acc, NoError)

\* The retry test without the status.
IsRateLimitAnyStatus(r) == r.error.rl

\* err.startswith("403:") and "rate limit" in err
IsRateLimit(r) == r.error.status = 403 /\ r.error.rl

\* Lines 100-109: the collection of a response: the list itself, or
\* data.get("items", []), which raises on a payload that is no dict.
Extract(data) ==
    IF data.t = "list" THEN [raised |-> FALSE, items |-> data.items]
    ELSE IF data.t = "obj"
    THEN [raised |-> FALSE, items |-> IF data.has THEN data.items ELSE <<>>]
    ELSE [raised |-> TRUE, items |-> <<>>]

\* The break on an empty collection only when no next page is announced.
StopsOnEmptyUnlessNext(items, r) == items = <<>> /\ ~("link" \in r.keys /\ r.link)

\* if not data: break / if not items: break
StopsOnEmpty(items, r) == items = <<>>

\* The continuation test always finding a next page.
HasNextAlways(r) == TRUE

\* The continuation test never finding a next page.
HasNextNever(r) == FALSE

\* 'rel="next"' in (res.get("link") or "")
HasNext(r) == "link" \in r.keys /\ r.link

NoStep == [step |-> "none", page |-> 0, net |-> FALSE, resp |-> OkResp(None, FALSE),
           before |-> <<>>]

AllPaths == {"/a"}

AllParams == {NoParams}

AllMaxPages == (0 - 1)..MaxPages

\* The call, up to the first test of the loop (lines 86-88). sleep_s only
\* delays the next page (lines 115-116) and is left out, as are requests.get
\* and r.json() raising.
StartAll(path, params, max_pages) ==
    /\ pc = "idle"
    /\ args' = [path |-> path, params |-> params, max_pages |-> max_pages]
    /\ page' = 1
    /\ all_items' = <<>>
    /\ res' = NoGet.res
    /\ ev' = NoStep
    /\ run' = [NoRun EXCEPT !.full = run.full, !.prev = ret, !.prevMax = args.max_pages]
    /\ IF 1 <= max_pages
       THEN pc' = "first" /\ ret' = NoReturn
       ELSE pc' = "idle" /\ ret' = ReturnData(<<>>)
    /\ UNCHANGED <<lruVars, getVars, otherVars>>

\* Lines 100-117 with the loop going one page beyond max_pages.
CollectOneMore(r) ==
    LET x == Extract(r.data)
    IN  IF x.raised
        THEN /\ pc' = "idle" /\ ret' = Raised
             /\ UNCHANGED <<page, all_items>>
        ELSE IF StopsOnEmpty(x.items, r)
        THEN /\ pc' = "idle" /\ ret' = ReturnData(all_items)
             /\ UNCHANGED <<page, all_items>>
        ELSE IF ~HasNext(r)
        THEN /\ pc' = "idle" /\ ret' = ReturnData(all_items \o x.items)
             /\ all_items' = all_items \o x.items
             /\ UNCHANGED page
        ELSE /\ all_items' = all_items \o x.items
             /\ page' = page + 1
             /\ IF page + 1 <= args.max_pages + 1
                THEN pc' = "first" /\ ret' = NoReturn
                ELSE pc' = "idle" /\ ret' = ReturnData(all_items \o x.items)

\* Lines 100-117 for a res that holds data: collect, then go on or return.
Collect(r) ==
    LET x == Extract(r.data)
    IN  IF x.raised
        THEN /\ pc' = "idle" /\ ret' = Raised
             /\ UNCHANGED <<page, all_items>>
        ELSE IF StopsOnEmpty(x.items, r)
        THEN /\ pc' = "idle" /\ ret' = ReturnData(all_items)
             /\ UNCHANGED <<page, all_items>>
        ELSE IF ~HasNext(r)
        THEN /\ pc' = "idle" /\ ret' = ReturnData(all_items \o x.items)
             /\ all_items' = all_items \o x.items
             /\ UNCHANGED page
        ELSE /\ all_items' = all_items \o x.items
             /\ page' = page + 1
             /\ IF page + 1 <= args.max_pages
                THEN pc' = "first" /\ ret' = NoReturn
                ELSE pc' = "idle" /\ ret' = ReturnData(all_items \o x.items)

\* One _get of the loop for the current page: the first attempt (line 89) or
\* the retry (line 94), the transport answering resp if it is called. run
\* counts the transport calls and the backoff sleeps of the page attempted.
Attempt(resp) ==
    /\ pc \in {"first", "retry"}
    /\ LET g == _get(CACHE, args.path, Merge(args.params, "page", IntVal(page)), TRUE, resp)
           n == (IF pc = "retry" THEN run.calls ELSE 0) + (IF g.net THEN 1 ELSE 0)
           z == IF pc = "retry" THEN run.sleeps ELSE 0
           f == run.full /\ (g.net => FullPage(resp))
           t == run.total + (IF g.net THEN 1 ELSE 0)
       IN  /\ CACHE' = g.cache
           /\ last' = [op |-> "get", path |-> args.path,
                       params |-> Merge(args.params, "page", IntVal(page)),
                       use_cache |-> TRUE, net |-> g.net, res |-> g.res,
                       pre |-> CACHE.d, atCall |-> g.atCall.d]
           /\ res' = g.res
           /\ ev' = [step |-> pc, page |-> page, net |-> g.net,
                     resp |-> IF g.net THEN resp ELSE NoStep.resp, before |-> all_items]
           /\ IF "error" \in g.res.keys
              THEN IF pc = "first" /\ IsRateLimit(g.res)
                   THEN /\ pc' = "retry" /\ ret' = NoReturn
                        /\ run' = [run EXCEPT !.calls = n, !.sleeps = z + 1, !.maxReq = page,
                                              !.full = f, !.total = t]
                        /\ UNCHANGED <<page, all_items>>
                   ELSE /\ pc' = "idle" /\ ret' = ReturnRes(g.res, all_items)
                        /\ run' = [run EXCEPT !.calls = n, !.sleeps = z, !.maxReq = page,
                                              !.full = f, !.total = t]
                        /\ UNCHANGED <<page, all_items>>
              ELSE /\ run' = [run EXCEPT !.calls = n, !.sleeps = z, !.maxReq = page,
                                         !.full = f, !.total = t,
                                         !.got = Append(run.got, g.res.data)]
                   /\ Collect(g.res)
    /\ UNCHANGED <<lruVars, args, otherVars>>

-----------------------------------------------------------------------------
\* _cache_key called for one path and two mappings.

KeyPaths == {"/a", "/b"}

KeyValues == {IntVal(1), StrVal("1"), StrVal("x")}

\* The dicts of at most MaxParams items: every choice of names, insertion
\* order and values.
RECURSIVE DictsOf(_)
DictsOf(n) ==
    IF n = 0 THEN {<<>>}
    ELSE LET shorter == DictsOf(n - 1)
         IN  shorter \cup
             {Append(d, [name |-> nm, value |-> v]) :
                 d \in {x \in shorter : Len(x) = n - 1},
                 nm \in {NameOrder[i] : i \in 1..Len(NameOrder)},
                 v \in KeyValues}

KeyDicts == {d \in DictsOf(MaxParams) : Cardinality(ParamNames(d)) = Len(d)}

NoKeys == [op |-> "none", path |-> "", p1 |-> <<>>, p2 |-> <<>>, k1 |-> <<>>, k2 |-> <<>>]

\* The arguments are there; the two calls have not been made.
KeyArgs(path, p1, p2) ==
    [op |-> "args", path |-> path, p1 |-> p1, p2 |-> p2, k1 |-> <<>>, k2 |-> <<>>]

KeyCall ==
    /\ keyed.op = "args"
    /\ keyed' = [keyed EXCEPT !.op = "key",
                              !.k1 = _cache_key(keyed.path, keyed.p1),
                              !.k2 = _cache_key(keyed.path, keyed.p2)]
    /\ UNCHANGED <<lruVars, getVars, allVars, sessionVars>>
    /\ UNCHANGED <<lruVars, getVars, allVars>>

-----------------------------------------------------------------------------
\* Initial values.

-----------------------------------------------------------------------------
\* The session: SESSION, _use_repo and connect_repo.

\* What an owner or a repo can be: Python's None, or a string.
NoneVal == [none |-> TRUE, s |-> ""]
Str(s) == [none |-> FALSE, s |-> s]

\* Python's truth of a value: None and the empty string are false.
Truthy(v) == ~v.none /\ v.s # ""

\* a or b
Or(a, b) == IF Truthy(a) THEN a ELSE b

\* SESSION = {"owner": None, "repo": None}
SessionInit == [owner |-> NoneVal, repo |-> NoneVal]

\* _use_repo raising only when both the owner and the repo are missing.
_use_repoRaisingOnBoth(session, owner, repo) ==
    LET o == Or(owner, session.owner)
        r == Or(repo, session.repo)
    IN  [session |-> session, raised |-> ~Truthy(o) /\ ~Truthy(r), o |-> o, r |-> r]

\* _use_repo(owner, repo): the session after the call, whether it raised the
\* "No repo set" ValueError, and the pair it returned otherwise.
_use_repo(session, owner, repo) ==
    LET o == Or(owner, session.owner)
        r == Or(repo, session.repo)
    IN  [session |-> session, raised |-> ~Truthy(o) \/ ~Truthy(r), o |-> o, r |-> r]

\* connect_repo(owner, repo): the session after the call.
connect_repo(session, owner, repo) == [session EXCEPT !.owner = owner, !.repo = repo]

\* The owners and repos of the calls.
SessionNames == {"", "x", "y"}

\* What a tool passes to _use_repo: owner or None, so never the empty string;
\* the empty string is among the arguments all the same, for _use_repo itself.
UseArgs == {NoneVal} \cup {Str(s) : s \in SessionNames}

\* connect_repo is called with strings.
ConnectArgs == {Str(s) : s \in SessionNames}

NotConnected == [done |-> FALSE, owner |-> NoneVal, repo |-> NoneVal]

NoUse == [op |-> "none", owner |-> NoneVal, repo |-> NoneVal, pre |-> SessionInit,
          post |-> SessionInit, conn |-> NotConnected,
          raised |-> FALSE, o |-> NoneVal, r |-> NoneVal]

ConnectRepo(owner, repo) ==
    /\ SESSION' = connect_repo(SESSION, owner, repo)
    /\ connected' = [done |-> TRUE, owner |-> owner, repo |-> repo]
    /\ UNCHANGED <<used, lruVars, getVars, allVars, keyVars>>

UseRepo(owner, repo) ==
    LET u == _use_repo(SESSION, owner, repo)
    IN  /\ SESSION' = u.session
        /\ used' = [op |-> "use", owner |-> owner, repo |-> repo, pre |-> SESSION,
                    post |-> u.session, conn |-> connected,
                    raised |-> u.raised, o |-> u.o, r |-> u.r]
        /\ UNCHANGED <<connected, lruVars, getVars, allVars, keyVars>>

InitKey == keyed = NoKeys

InitSession == SESSION = SessionInit /\ used = NoUse /\ connected = NotConnected

InitOther == InitKey /\ InitSession

InitLru(m) ==
    /\ lru = LRUInit(m)
    /\ lruEv = NoLruCall
    /\ lruOps = <<>>
    /\ touched = <<>>

InitGet ==
    /\ CACHE = LRUInit(CacheMaxsize)
    /\ last = NoGet

InitAll ==
    /\ pc = "idle"
    /\ args = [path |-> "/a", params |-> NoParams, max_pages |-> 0]
    /\ page = 1
    /\ all_items = <<>>
    /\ res = NoGet.res
    /\ ret = NoReturn
    /\ ev = NoStep
    /\ run = NoRun

LruInit == (\E m \in LruSizes : InitLru(m)) /\ InitGet /\ InitAll /\ InitOther

LruNext ==
    \/ \E k \in LruKeys, v \in LruValues : LruSetCall(k, v)
    \/ \E k \in LruKeys : LruGetCall(k)

SpecLRU == LruInit /\ [][LruNext]_vars

GetInit == InitLru(MaxCap) /\ InitGet /\ InitAll /\ InitOther

GetNext ==
    \E rq \in GetRequests, use_cache \in BOOLEAN, resp \in GetResps :
        GetCall(rq[1], rq[2], use_cache, resp)

SpecGet == GetInit /\ [][GetNext]_vars

Init == InitLru(MaxCap) /\ InitGet /\ InitAll /\ InitOther

Next ==
    \/ \E path \in AllPaths, params \in AllParams, max_pages \in AllMaxPages :
           StartAll(path, params, max_pages)
    \/ \E resp \in Resps(page) : Attempt(resp)

Spec == Init /\ [][Next]_vars


\* One _get_all, on the empty CACHE, over more pages than CACHE holds: every
\* page is a list of one item with a next page, or a failure.
LongMaxPages == CacheMaxsize + 2

LongResps(p) ==
    {OkResp(ListOf(<<p>>), TRUE), FailResp(403, Text(30, 5)), FailResp(500, Text(9, 0))}

LongNext ==
    \/ /\ ret = NoReturn
       /\ \E path \in AllPaths, params \in AllParams : StartAll(path, params, LongMaxPages)
    \/ \E resp \in LongResps(page) : Attempt(resp)

SpecLong == Init /\ [][LongNext]_vars

KeyInit ==
    /\ InitLru(MaxCap) /\ InitGet /\ InitAll /\ InitSession
    /\ \E path \in KeyPaths, p1 \in KeyDicts, p2 \in KeyDicts : keyed = KeyArgs(path, p1, p2)

KeyNext == KeyCall

SpecKey == KeyInit /\ [][KeyNext]_vars

\* connect_repo and _use_repo, called in any order.
SessionNext ==
    \/ \E owner \in ConnectArgs, repo \in ConnectArgs : ConnectRepo(owner, repo)
    \/ \E owner \in UseArgs, repo \in UseArgs : UseRepo(owner, repo)

SpecSession == Init /\ [][SessionNext]_vars

-----------------------------------------------------------------------------
\* C1 as stated: after every call, for every maxsize, the number of stored
\* entries is at most maxsize.
C1_AnyMaxsize ==
    lruEv.op # "none" => Len(lru.d) <= lru.maxsize

\* C1, amended: for every maxsize >= 0, after every set or get call the
\* number of stored entries is at most maxsize.
C1_Capacity ==
    (lruEv.op # "none" /\ lru.maxsize >= 0) => Len(lru.d) <= lru.maxsize

\* A set of a new key into a full store, which had to evict.
C1_Witness ==
    /\ lru.maxsize >= 2
    /\ lruEv.op = "set"
    /\ Len(lruEv.pre) = lru.maxsize
    /\ ~InDict(lruEv.pre, lruEv.k)
    /\ Len(lru.d) = lru.maxsize

\* C2: an evicted entry is the one whose most recent touch is older than the
\* most recent touch of every other stored entry; and after set(a); set(b);
\* get(a); set(c) with maxsize = 2 the store holds exactly {a, c}.
C2_EvictsLeastRecent ==
    /\ (lruEv.op = "set" /\ Evicted # {}) =>
          \E x \in Evicted :
              /\ Evicted = {x}
              /\ \A y \in (DictKeys(lruEv.pre) \cup {lruEv.k}) \ {x} :
                     TouchPos(touched, x) < TouchPos(touched, y)
    /\ lruEv.op = "get" => Evicted = {}
    /\ \A a, b, c \in LruKeys :
          ( /\ Cardinality({a, b, c}) = 3
            /\ lru.maxsize = 2
            /\ lruOps = << <<"set", a>>, <<"set", b>>, <<"get", a>>, <<"set", c>> >> )
          => DictKeys(lru.d) = {a, c}

\* The scenario has run and evicted b, with a kept only because get refreshed it.
C2_Witness ==
    /\ lru.maxsize = 2
    /\ lruOps = << <<"set", "a">>, <<"set", "b">>, <<"get", "a">>, <<"set", "c">> >>
    /\ Evicted = {"b"}
    /\ DictKeys(lru.d) = {"a", "c"}

\* The key the last _get call computed.
LastKey == _cache_key(last.path, last.params)

\* C3: after a fetch with useCache that succeeded, the next fetch of the same
\* (path, params) with useCache returns the same payload, served from the
\* cache, and makes no transport call, whatever the payload.
C3_HitSkipsNetwork ==
    [][ ( /\ last.op = "get" /\ last.use_cache /\ "data" \in last.res.keys
          /\ last'.op = "get" /\ last'.use_cache
          /\ last'.path = last.path /\ last'.params = last.params )
        => ( /\ ~last'.net
             /\ "from_cache" \in last'.res.keys /\ last'.res.from_cache
             /\ last'.res.data = last.res.data ) ]_vars

\* C10: a fetch that fails leaves CACHE as it was when the transport was
\* called (keys, values, order), and as it was before the fetch when the key
\* was not stored; a fetch without useCache leaves CACHE alone; no stored value
\* is a failure.
C10_OnlySuccessesCached ==
    /\ (last.op = "get" /\ last.net /\ "error" \in last.res.keys) =>
          /\ CACHE.d = last.atCall
          /\ DictKeys(CACHE.d) = DictKeys(last.pre)
          /\ \A k \in DictKeys(last.pre) : DictGet(CACHE.d, k) = DictGet(last.pre, k)
          /\ (~InDict(last.pre, LastKey) \/ ~last.use_cache) => CACHE.d = last.pre
    /\ (last.op = "get" /\ ~last.use_cache) => CACHE.d = last.pre
    /\ \A i \in 1..Len(CACHE.d) : CACHE.d[i].v.t \in {"null", "list", "obj"}

\* A fetch with useCache failed at the transport, with two entries stored.
C10_Witness ==
    /\ last.op = "get" /\ last.use_cache /\ last.net
    /\ "error" \in last.res.keys
    /\ Len(CACHE.d) = 2

-----------------------------------------------------------------------------
\* Claims about _get_all.

\* _get_all has returned or raised.
Done == pc = "idle" /\ ret.kind # "none"

\* The items of a payload that is a list or an object.
ItemsOf(d) == IF d.t = "list" \/ d.has THEN d.items ELSE <<>>

\* The last attempt got a page from the transport; what lines 100-117 are to
\* make of it.
GoesOnAsForSuccess ==
    LET d == ev.resp.data
        items == ItemsOf(d)
    IN  IF d.t = "null" THEN pc = "idle" /\ ret.kind = "raised"
        ELSE IF items = <<>>
        THEN pc = "idle" /\ ret = ReturnData(ev.before) /\ all_items = ev.before
        ELSE /\ all_items = ev.before \o items
             /\ IF ev.resp.next /\ ev.page < args.max_pages
                THEN pc = "first" /\ page = ev.page + 1 /\ ret.kind = "none"
                ELSE pc = "idle" /\ ret = ReturnData(ev.before \o items)

\* C4: when the first attempt for a page fails with a 403 rate-limit failure
\* and the second succeeds, the page took exactly two transport calls and one
\* backoff sleep, its items are appended, and pagination goes on exactly as
\* after a first attempt that succeeded.
C4_RetryThenSuccess ==
    /\ (ev.step = "retry" /\ "data" \in res.keys) =>
          /\ ev.net /\ run.calls = 2 /\ run.sleeps = 1
          /\ GoesOnAsForSuccess
    /\ (ev.step = "first" /\ ev.net /\ "data" \in res.keys) =>
          /\ run.calls = 1 /\ run.sleeps = 0
          /\ GoesOnAsForSuccess

\* Page 2 succeeded on its retry and pagination went on to page 3.
C4_Witness ==
    /\ ev.step = "retry" /\ "data" \in res.keys
    /\ ev.page = 2 /\ page = 3 /\ pc = "first"
    /\ all_items = <<1, 2>>

\* C5: when the retry of a page fails too, _get_all returns the second
\* attempt's failure, after exactly two transport calls for the page, and
\* requests no later page.
C5_RetryExhausted ==
    (ev.step = "retry" /\ "error" \in res.keys) =>
        /\ pc = "idle"
        /\ ret = Returned({"error", "path", "ratelimit-remaining", "ratelimit-reset"},
                          <<>>, ErrorOf(ev.resp))
        /\ run.calls = 2 /\ run.sleeps = 1
        /\ page = ev.page /\ run.maxReq = ev.page

\* The retry of page 2 (of 3) failed with another failure than the first attempt.
C5_Witness ==
    /\ ev.step = "retry" /\ "error" \in res.keys
    /\ ev.page = 2 /\ args.max_pages = 3
    /\ ev.resp.status = 500
    /\ ret.error.status = 500

\* The transport's answer is a 403 whose message, as kept, holds "rate limit".
TransientRateLimit(r) ==
    r.status = 403 /\ r.text.rlAt > 0 /\ r.text.rlAt + 9 <= TruncLen

\* C6: a failure of the first attempt that is not a 403 with a rate-limit
\* message is returned at once: one transport call for the page, no sleep,
\* nothing afterwards.
C6_OtherFailuresNotRetried ==
    (ev.step = "first" /\ "error" \in res.keys /\ ~TransientRateLimit(ev.resp)) =>
        /\ pc = "idle"
        /\ ret = Returned({"error", "path", "ratelimit-remaining", "ratelimit-reset"},
                          <<>>, ErrorOf(ev.resp))
        /\ run.calls = 1 /\ run.sleeps = 0
        /\ page = ev.page /\ run.maxReq = ev.page

\* Page 2 failed with a 500 whose message holds "rate limit".
C6_Witness ==
    /\ ev.step = "first" /\ "error" \in res.keys
    /\ ev.page = 2
    /\ ev.resp.status = 500 /\ ev.resp.text.rlAt > 0
    /\ pc = "idle" /\ ret.error.status = 500

\* C7: no page beyond max_pages is requested; and when the transport answers
\* every call with a non-empty page announcing a next page, _get_all(max_pages
\* = N) returns the items of exactly the pages 1..N, in page order.
C7_MaxPagesCeiling ==
    /\ run.maxReq <= (IF args.max_pages > 0 THEN args.max_pages ELSE 0)
    /\ (Done /\ run.full /\ args.max_pages >= 0) =>
          /\ ret = ReturnData([i \in 1..args.max_pages |-> i])
          /\ run.maxReq = args.max_pages

\* C8: a page that succeeds with an empty collection (an empty list, an object
\* whose items are empty or missing) ends the loop: _get_all returns the items
\* of the earlier pages and requests no later page, next page announced or not.
C8_EmptyPageEnds ==
    ( /\ ev.step \in {"first", "retry"} /\ "data" \in res.keys
      /\ res.data.t \in {"list", "obj"} /\ ItemsOf(res.data) = <<>> )
    => /\ pc = "idle"
       /\ ret = ReturnData(ev.before)
       /\ all_items = ev.before
       /\ page = ev.page /\ run.maxReq = ev.page

\* Page 2 of 3 came back empty with a next page announced, after page 1 gave an item.
C8_Witness ==
    /\ ev.step = "first" /\ ev.net /\ "data" \in res.keys
    /\ ItemsOf(res.data) = <<>> /\ res.data.t = "obj"
    /\ ev.resp.next
    /\ ev.page = 2 /\ args.max_pages = 3
    /\ ev.before = <<1>>
    /\ ret = ReturnData(<<1>>)

\* C9: what _get_all returns holds either "data" (the aggregated items) or
\* "error", never both; a failure after earlier pages succeeded carries none
\* of their items.
C9_NoPartialResult ==
    ret.kind = "returned" =>
        /\ ("data" \in ret.keys) # ("error" \in ret.keys)
        /\ "error" \in ret.keys => ret.items = <<>>
        /\ "data" \in ret.keys => ret.items = all_items /\ ret.error = NoError

\* Page 3 failed after pages 1 and 2 gave items.
C9_Witness ==
    /\ ret.kind = "returned" /\ "error" \in ret.keys
    /\ ev.page = 3
    /\ all_items = <<1, 2>>
    /\ ret.items = <<>>

-----------------------------------------------------------------------------
\* The key of page p of the running (or last) _get_all.
PageKey(p) == _cache_key(args.path, Merge(args.params, "page", IntVal(p)))

\* _get_all returned a failure.
Failed == Done /\ ret.kind = "returned" /\ "error" \in ret.keys

\* Page p of the run is stored in CACHE with the payload the run got for it.
PageCached(p) ==
    InDict(CACHE.d, PageKey(p)) /\ DictGet(CACHE.d, PageKey(p)) = run.got[p]

\* C11 as stated: when _get_all ends in a failure on page k, every page
\* 1..k-1 of the run is still in CACHE under its key with its payload.
C11_AllPagesStayCached ==
    Failed => \A p \in 1..(ev.page - 1) : PageCached(p)

\* C11, amended: when _get_all ends in a failure on page k, the pages of
\* 1..k-1 that are among the last maxsize (128) pages of the run are still in
\* CACHE under their keys with their payloads: all of them when k-1 <= 128.
C11_NoRollback ==
    Failed => \A p \in 1..(ev.page - 1) :
                  p >= ev.page - CacheMaxsize => PageCached(p)

\* Page 4 failed after pages 1..3 were fetched, and all three are stored.
C11_Witness ==
    /\ Failed /\ ev.page = 4
    /\ Len(run.got) = 3
    /\ \A p \in 1..3 : PageCached(p)

-----------------------------------------------------------------------------
\* The items of a dict, whatever their order.
PairsOf(params) == {params[i] : i \in 1..Len(params)}

\* C12: for one path, two mappings that hold the same name/value pairs, in
\* any insertion order, get the same key, and two mappings that differ in a
\* value or in a name get different keys.
C12_KeyDeterministicInjective ==
    keyed.op = "key" =>
        /\ PairsOf(keyed.p1) = PairsOf(keyed.p2) => keyed.k1 = keyed.k2
        /\ PairsOf(keyed.p1) # PairsOf(keyed.p2) => keyed.k1 # keyed.k2

\* The same two pairs inserted in opposite orders got one key.
C12_Witness ==
    /\ keyed.op = "key"
    /\ keyed.p1 = <<[name |-> "q", value |-> IntVal(1)],
                    [name |-> "page", value |-> StrVal("x")]>>
    /\ keyed.p2 = <<[name |-> "page", value |-> StrVal("x")],
                    [name |-> "q", value |-> IntVal(1)]>>
    /\ keyed.k1 = keyed.k2
    /\ keyed.k1 = <<"/a", "?", "{", "\"", "page", "\"", ": ", "\"", "x", "\"", ", ",
                    "\"", "q", "\"", ": ", "1", "}">>

-----------------------------------------------------------------------------
\* The entries of a store other than k's, in their order.
Others(d, k) == SelectSeq(d, LAMBDA e : e.k # k)

\* C13: a get that misses returns None and leaves the store as it was; a get
\* that hits returns the stored value, makes the entry the most recently used
\* one, and leaves the keys, every value and the order of the other entries
\* as they were.
C13_GetFrame ==
    lruEv.op = "get" =>
        IF InDict(lruEv.pre, lruEv.k)
        THEN /\ lruEv.ret = DictGet(lruEv.pre, lruEv.k)
             /\ Len(lru.d) = Len(lruEv.pre)
             /\ lru.d[Len(lru.d)] = [k |-> lruEv.k, v |-> DictGet(lruEv.pre, lruEv.k)]
             /\ Others(lru.d, lruEv.k) = Others(lruEv.pre, lruEv.k)
        ELSE lruEv.ret = None /\ lru.d = lruEv.pre

\* A get hit the oldest of three entries and made it the newest.
C13_Witness ==
    /\ lruEv.op = "get"
    /\ Len(lruEv.pre) = 3 /\ lruEv.pre[1].k = lruEv.k
    /\ lruEv.ret = ListOf(<<1>>)
    /\ lru.d[3].k = lruEv.k /\ lru.d[1] = lruEv.pre[2] /\ lru.d[2] = lruEv.pre[3]

\* The size of the store of the last set right after the insert, before the
\* eviction test.
SizeBeforeEviction == Cardinality(DictKeys(lruEv.pre) \cup {lruEv.k})

\* A set removes at most one entry, and one that overwrites a stored key
\* changes only that key's value and recency and evicts nothing.
SetEvictsAtMostOne ==
    /\ Cardinality(Evicted) <= 1
    /\ Len(lru.d) = SizeBeforeEviction - Cardinality(Evicted)
    /\ InDict(lruEv.pre, lruEv.k) =>
          /\ Evicted = {}
          /\ lru.d[Len(lru.d)] = [k |-> lruEv.k, v |-> lruEv.v]
          /\ Others(lru.d, lruEv.k) = Others(lruEv.pre, lruEv.k)

\* C14 as stated: a set removes zero or one entry, the size before the
\* eviction is at most maxsize + 1, and an overwriting set changes only its
\* key's value and recency and evicts nothing.
C14_AtMostMaxsizePlusOne ==
    lruEv.op = "set" =>
        /\ SetEvictsAtMostOne
        /\ SizeBeforeEviction <= lru.maxsize + 1

\* C14, amended: the same, the size before the eviction being at most
\* maxsize + 1 for every maxsize >= 0 (it is 1 for a negative maxsize).
C14_EvictsAtMostOne ==
    lruEv.op = "set" =>
        /\ SetEvictsAtMostOne
        /\ lru.maxsize >= 0 => SizeBeforeEviction <= lru.maxsize + 1
        /\ lru.maxsize < 0 => SizeBeforeEviction = 1

\* A set overwrote the oldest entry of a full store with another value.
C14_Witness ==
    /\ lruEv.op = "set" /\ lru.maxsize = 2
    /\ Len(lruEv.pre) = 2 /\ lruEv.pre[1].k = lruEv.k /\ lruEv.pre[1].v # lruEv.v
    /\ Evicted = {}
    /\ lru.d = <<lruEv.pre[2], [k |-> lruEv.k, v |-> lruEv.v]>>

\* C18 as stated: for every store, a get(k) right after set(k, v) is a hit
\* that returns v.
C18_ReadYourWriteAnyMaxsize ==
    [][ (lruEv.op = "set" /\ lruEv'.op = "get" /\ lruEv'.k = lruEv.k)
        => (InDict(lruEv'.pre, lruEv.k) /\ lruEv'.ret = lruEv.v) ]_vars

\* C18, amended: for every store with maxsize >= 1, a get(k) right after
\* set(k, v) is a hit that returns v.
C18_ReadYourWrite ==
    [][ (lru.maxsize >= 1 /\ lruEv.op = "set" /\ lruEv'.op = "get" /\ lruEv'.k = lruEv.k)
        => (InDict(lruEv'.pre, lruEv.k) /\ lruEv'.ret = lruEv.v) ]_vars

\* set(c, v) into a full store of one entry, then get(c), which returned v.
C18_Witness ==
    /\ lru.maxsize = 1
    /\ Len(lruOps) = 4
    /\ lruOps[2] = <<"set", "a">> /\ lruOps[3] = <<"set", "c">> /\ lruOps[4] = <<"get", "c">>
    /\ lruEv.op = "get" /\ lruEv.ret = ListOf(<<1>>)
    /\ lru.d = <<[k |-> "c", v |-> ListOf(<<1>>)]>>

-----------------------------------------------------------------------------
\* The last _get of the run got a page that is not empty and announces a next one.
GotPageWithNext ==
    /\ "data" \in res.keys /\ res.data.t \in {"list", "obj"}
    /\ ItemsOf(res.data) # <<>>
    /\ "link" \in res.keys /\ res.link

\* C15: the pages a run passes to _get are 1, 2, 3, ... with none skipped and
\* none repeated but for the one retry after a 403 rate-limit failure; page
\* n+1 is requested only after page n succeeded with a collection that is not
\* empty and a next page announced.
C15_SequentialPages ==
    [][ /\ ev'.step = "first" =>
            IF ev.step = "none" THEN ev'.page = 1
            ELSE ev'.page = ev.page + 1 /\ GotPageWithNext
        /\ ev'.step = "retry" =>
            /\ ev.step = "first" /\ ev'.page = ev.page
            /\ "error" \in res.keys /\ TransientRateLimit(ev.resp) ]_vars

\* Page 3 is requested, after page 2 succeeded on its retry.
C15_Witness ==
    /\ ev.step = "first" /\ ev.page = 3
    /\ run.maxReq = 3 /\ run.total = 4
    /\ Len(run.got) >= 2

\* max(max_pages, 0)
PagesAllowed == IF args.max_pages > 0 THEN args.max_pages ELSE 0

\* What a running _get_all has left to do at most: two calls of _get for
\* the page it is at, unless it is at the retry, and two for every page after.
Left ==
    IF pc = "idle" THEN 0
    ELSE 2 * (args.max_pages - page) + (IF pc = "first" THEN 2 ELSE 1)

\* C16: a run makes at most 2 * max(max_pages, 0) transport calls and at most
\* one backoff sleep per page, whatever the transport answers; with max_pages
\* <= 0 it returns an empty list without a transport call; and a run comes to
\* its end: every step of a running _get_all lowers what it has left to do,
\* which is never below zero.
C16_TerminatesBounded ==
    /\ [](run.total <= 2 * PagesAllowed /\ run.sleeps <= 1 /\ run.maxReq <= PagesAllowed)
    /\ []((ret.kind # "none" /\ args.max_pages <= 0) => (ret = ReturnData(<<>>) /\ run.total = 0))
    /\ [](Left >= 0 /\ Left <= 2 * PagesAllowed)
    /\ [][pc # "idle" => Left' < Left]_vars

\* A run of two pages ended after four transport calls: each page failed once
\* with a rate limit and succeeded on its retry.
C16_Witness ==
    /\ Done /\ args.max_pages = 2
    /\ run.total = 4 /\ run.sleeps = 1
    /\ ret = ReturnData(<<1, 2>>)

\* C17: a run that follows a run with the same arguments that returned the
\* list L, the pages of that run still cached and the transport answering as
\* before (here: not called at all), returns L too.
C17_RepeatableOnWarmCache ==
    ( /\ Done
      /\ run.prev.kind = "returned" /\ "data" \in run.prev.keys
      /\ run.prevMax = args.max_pages
      /\ run.total = 0 )
    => ret = run.prev

-----------------------------------------------------------------------------
\* An argument that was passed and is not empty, and otherwise what the most
\* recent connect_repo stored (nothing, if there was none).
Resolved(arg, stored) == IF ~arg.none /\ arg.s # "" THEN arg ELSE stored

\* Whether a resolved value is empty: the empty string, or nothing at all.
Empty(v) == v.none \/ v.s = ""

\* C19: _use_repo takes each argument that was passed and is not empty, and
\* otherwise the value the most recent connect_repo stored; it raises exactly
\* when the owner or the repo so resolved is empty; and it leaves SESSION as
\* it was.
C19_SessionResolution ==
    used.op = "use" =>
        LET o == Resolved(used.owner, used.conn.owner)
            r == Resolved(used.repo, used.conn.repo)
        IN  /\ used.raised <=> (Empty(o) \/ Empty(r))
            /\ ~used.raised => (used.o = o /\ used.r = r)
            /\ used.post = used.pre
            /\ SESSION = [owner |-> connected.owner, repo |-> connected.repo]

\* After connect_repo("x", "y"): a call that passes only a repo resolves the
\* owner from the session.
C19_Witness ==
    /\ used.op = "use" /\ ~used.raised
    /\ used.conn = [done |-> TRUE, owner |-> Str("x"), repo |-> Str("y")]
    /\ used.owner = NoneVal /\ used.repo = Str("x")
    /\ used.o = Str("x") /\ used.r = Str("x")

====
